---- MODULE Spec2Model ----
(***************************************************************************)
(* Model of juniper's chrono integration (src/integrations/chrono.rs):     *)
(* the five GraphQL scalars DateTimeFixedOffset, DateTimeUtc, NaiveDate,   *)
(* NaiveTime and NaiveDateTime, each with resolve (serialize),             *)
(* from_input_value (decode) and from_str (literal token classification).  *)
(*                                                                         *)
(* Text is a sequence of one-character strings.  The chrono calls the      *)
(* scalars make (parse_from_rfc3339, FromStr, parse_from_str, format,      *)
(* to_rfc3339, from_timestamp_opt, timestamp) are modelled by what they    *)
(* do on that text, character by character.                                *)
(***************************************************************************)
EXTENDS Integers, Sequences, FiniteSets, TLC

None == [tag |-> "None"]

Some(v) == [tag |-> "Some", v |-> v]

(***************************************************************************)
(* Characters and number scanning (chrono::format::scan).                  *)
(***************************************************************************)
DigitChars == {"0", "1", "2", "3", "4", "5", "6", "7", "8", "9"}

DigitVal(c) ==
    CASE c = "0" -> 0 [] c = "1" -> 1 [] c = "2" -> 2 [] c = "3" -> 3
      [] c = "4" -> 4 [] c = "5" -> 5 [] c = "6" -> 6 [] c = "7" -> 7
      [] c = "8" -> 8 [] c = "9" -> 9

DigitChar(n) ==
    CASE n = 0 -> "0" [] n = 1 -> "1" [] n = 2 -> "2" [] n = 3 -> "3"
      [] n = 4 -> "4" [] n = 5 -> "5" [] n = 6 -> "6" [] n = 7 -> "7"
      [] n = 8 -> "8" [] n = 9 -> "9"

IsDigits(s) == \A i \in 1..Len(s) : s[i] \in DigitChars

Drop(s, n) == SubSeq(s, n + 1, Len(s))

Take(s, n) == SubSeq(s, 1, n)

StartsWith(s, p) == Len(s) >= Len(p) /\ Take(s, Len(p)) = p

\* A character is a string: the character itself, or its code point written
\* out ("U+2212") where a string of the model cannot hold the character.

\* U+2212 MINUS SIGN
MINUS_SIGN == "U+2212"

\* char::is_whitespace (the White_Space property): U+0009..U+000D, U+0020,
\* U+0085, U+00A0, U+1680, U+2000..U+200A, U+2028, U+2029, U+202F, U+205F
\* and U+3000
WhiteSpace ==
    {" ", "\t", "\n", "\r", "\f", "", "", " ", " ",
     "U+2000", "U+2001", "U+2002", "U+2003", "U+2004", "U+2005", "U+2006",
     "U+2007", "U+2008", "U+2009", "U+200A", "U+2028", "U+2029", "U+202F",
     "U+205F", "U+3000"}

\* str::trim_start
RECURSIVE trim_left(_)
trim_left(s) ==
    IF s # <<>> /\ Head(s) \in WhiteSpace THEN trim_left(Tail(s)) ELSE s

\* number of leading ASCII digits of s, looking at no more than max characters
RECURSIVE LeadDigits(_, _)
LeadDigits(s, max) ==
    IF s = <<>> \/ max = 0 \/ Head(s) \notin DigitChars
    THEN 0
    ELSE 1 + LeadDigits(Tail(s), max - 1)

RECURSIVE DigitsValue(_, _)
DigitsValue(s, acc) ==
    IF s = <<>> THEN acc ELSE DigitsValue(Tail(s), acc * 10 + DigitVal(Head(s)))

Fail == [ok |-> FALSE]

\* scan::number(s, min, max): between min and max digits, as many as there are
number(s, min, max) ==
    LET upto == LeadDigits(s, max)
    IN  IF upto < min
        THEN Fail
        ELSE [ok |-> TRUE, v |-> DigitsValue(Take(s, upto), 0), rest |-> Drop(s, upto)]

\* Item::Literal
literal(s, lit) ==
    IF StartsWith(s, lit) THEN [ok |-> TRUE, rest |-> Drop(s, Len(lit))] ELSE Fail

\* Item::Numeric for an unsigned field of the given width (Month, Day, Hour,
\* Minute, Second): leading whitespace is skipped, 1..width digits are taken
numeric(s, width) == number(trim_left(s), 1, width)

\* the value of the digits s read after acc, negated when neg; Fail when it
\* does not fit an i32, which is what Parsed::set_year demands of a year
RECURSIVE year_value(_, _, _)
year_value(s, acc, neg) ==
    IF s = <<>>
    THEN [ok |-> TRUE, v |-> acc]
    ELSE LET d == DigitVal(Head(s))
         IN  IF neg
             THEN IF acc < 0 - 214748364 \/ (acc = 0 - 214748364 /\ d > 8)
                  THEN Fail
                  ELSE year_value(Tail(s), acc * 10 - d, neg)
             ELSE IF acc > 214748364 \/ (acc = 214748364 /\ d > 7)
                  THEN Fail
                  ELSE year_value(Tail(s), acc * 10 + d, neg)

\* scan::number(s, 1, usize::MAX) for a year written with a sign, together
\* with the i32::try_from of Parsed::set_year
signed_number(s, neg) ==
    LET n == LeadDigits(s, Len(s))
        r == year_value(Take(s, n), 0, neg)
    IN  IF n >= 1 /\ r.ok THEN [ok |-> TRUE, v |-> r.v, rest |-> Drop(s, n)] ELSE Fail

\* Item::Numeric(Year): signed; an explicit sign lifts the width limit
numeric_year(s) ==
    LET t == trim_left(s)
    IN  IF StartsWith(t, <<"-">>)
        THEN signed_number(Tail(t), TRUE)
        ELSE IF StartsWith(t, <<"+">>)
        THEN signed_number(Tail(t), FALSE)
        ELSE number(t, 1, 4)

(***************************************************************************)
(* Calendar (chrono::naive::date).                                         *)
(***************************************************************************)
\* (i32::MIN >> 13) + 1 and (i32::MAX >> 13) - 1: one year of headroom is
\* kept on either side for the local time of a DateTime
MIN_YEAR == 0 - 262143

MAX_YEAR == 262142

is_leap_year(y) == y % 4 = 0 /\ (y % 100 # 0 \/ y % 400 = 0)

days_in_month(y, m) ==
    CASE m \in {1, 3, 5, 7, 8, 10, 12} -> 31
      [] m \in {4, 6, 9, 11} -> 30
      [] m = 2 -> IF is_leap_year(y) THEN 29 ELSE 28

\* NaiveDate::from_ymd_opt
from_ymd_opt(y, m, d) ==
    IF /\ y >= MIN_YEAR /\ y <= MAX_YEAR
       /\ m >= 1 /\ m <= 12
       /\ d >= 1 /\ d <= days_in_month(y, m)
    THEN Some([year |-> y, month |-> m, day |-> d])
    ELSE None

\* NaiveDate::succ_opt: the next day, None after NaiveDate::MAX
succ_opt(dt) ==
    IF dt.day < days_in_month(dt.year, dt.month)
    THEN Some([dt EXCEPT !.day = dt.day + 1])
    ELSE IF dt.month < 12
    THEN Some([year |-> dt.year, month |-> dt.month + 1, day |-> 1])
    ELSE from_ymd_opt(dt.year + 1, 1, 1)

\* NaiveDate::pred_opt: the previous day, None before NaiveDate::MIN
pred_opt(dt) ==
    IF dt.day > 1
    THEN Some([dt EXCEPT !.day = dt.day - 1])
    ELSE IF dt.month > 1
    THEN Some([year |-> dt.year, month |-> dt.month - 1,
               day |-> days_in_month(dt.year, dt.month - 1)])
    ELSE from_ymd_opt(dt.year - 1, 12, 31)

\* NaiveDate::BEFORE_MIN and NaiveDate::AFTER_MAX: the days of the headroom
BEFORE_MIN == [year |-> MIN_YEAR - 1, month |-> 12, day |-> 31]

AFTER_MAX == [year |-> MAX_YEAR + 1, month |-> 1, day |-> 1]

\* Parsed::to_naive_time from hour, minute, second and nanosecond fields:
\* second 60 is a leap second, kept as second 59 plus 1_000_000_000 ns
to_naive_time(h, mi, sec, nano) ==
    IF h > 23 \/ mi > 59 \/ sec > 60
    THEN None
    ELSE IF sec = 60
    THEN Some([hour |-> h, minute |-> mi, second |-> 59, nano |-> nano + 1000000000])
    ELSE Some([hour |-> h, minute |-> mi, second |-> sec, nano |-> nano])

(***************************************************************************)
(* Formatting of numbers.                                                  *)
(***************************************************************************)
\* "{:02}"
Pad2(n) == <<DigitChar(n \div 10), DigitChar(n % 10)>>

\* decimal digits of a natural number, no padding
RECURSIVE Decimal(_)
Decimal(n) == IF n < 10 THEN <<DigitChar(n)>> ELSE Decimal(n \div 10) \o <<DigitChar(n % 10)>>

\* digits of n left-padded with zeros to at least w characters
RECURSIVE PadTo(_, _)
PadTo(s, w) == IF Len(s) >= w THEN s ELSE PadTo(<<"0">> \o s, w)

\* the year as NaiveDate's Display/Debug writes it: "{:04}" inside 0..9999,
\* "{:+05}" (explicit sign, sign counted in the width) outside
format_year(y) ==
    IF y >= 0 /\ y <= 9999
    THEN PadTo(Decimal(y), 4)
    ELSE IF y < 0
    THEN <<"-">> \o PadTo(Decimal(0 - y), 4)
    ELSE <<"+">> \o PadTo(Decimal(y), 4)

(***************************************************************************)
(* Wire values (InputValue / Value) and literal tokens (ScalarToken).      *)
(***************************************************************************)
StringScalar(t) == [kind |-> "String", text |-> t]

FloatScalar(f) == [kind |-> "Float", num |-> f]

NullValue == [kind |-> "Null"]

BooleanScalar(b) == [kind |-> "Boolean", bool |-> b]

\* InputValue::as_string_value: the text of a string scalar, absent otherwise
as_string_value(v) == IF v.kind = "String" THEN Some(v.text) ELSE None

\* InputValue::as_float_value: the number of a float scalar, absent otherwise
as_float_value(v) == IF v.kind = "Float" THEN Some(v.num) ELSE None

Ok(v) == [tag |-> "Ok", v |-> v]

\* ParseError::UnexpectedToken(Token::Scalar(value))
UnexpectedToken(tok) == [tag |-> "Err", error |-> "UnexpectedToken", token |-> tok]

(***************************************************************************)
(* Item by item parsing (chrono::format::parse, chrono::format::parsed).   *)
(***************************************************************************)
Pow10(n) ==
    CASE n = 0 -> 1 [] n = 1 -> 10 [] n = 2 -> 100 [] n = 3 -> 1000
      [] n = 4 -> 10000 [] n = 5 -> 100000 [] n = 6 -> 1000000
      [] n = 7 -> 10000000 [] n = 8 -> 100000000

RECURSIVE trim_digits(_)
trim_digits(s) ==
    IF s # <<>> /\ Head(s) \in DigitChars THEN trim_digits(Tail(s)) ELSE s

\* scan::nanosecond: 1..9 digits scaled to nanoseconds, further digits skipped
nanosecond(s) ==
    LET r == number(s, 1, 9)
    IN  IF r.ok
        THEN [ok |-> TRUE,
              v |-> r.v * Pow10(9 - (Len(s) - Len(r.rest))),
              rest |-> trim_digits(r.rest)]
        ELSE Fail

\* the optional ".fraction" (Fixed::Nanosecond)
opt_nanosecond(s) ==
    IF StartsWith(s, <<".">>) THEN nanosecond(Tail(s)) ELSE [ok |-> TRUE, v |-> 0, rest |-> s]

\* scan::char(s, b':')
colon_strict(s) == literal(s, <<":">>)

\* scan::colon_or_space: s.trim_start_matches(|c| c == ':' || c.is_whitespace()),
\* any run of ':' and whitespace in any order, possibly empty
RECURSIVE colon_or_space(_)
colon_or_space(s) ==
    IF s # <<>> /\ (Head(s) = ":" \/ Head(s) \in WhiteSpace)
    THEN colon_or_space(Tail(s))
    ELSE [ok |-> TRUE, rest |-> s]

\* the separator scanner handed to timezone_offset: scan::char(s, b':') by
\* parse_from_rfc3339, scan::colon_or_space by FromStr
colon(strict, s) == IF strict THEN colon_strict(s) ELSE colon_or_space(s)

\* scan::timezone_offset with allow_tz_minus_sign: sign ('+', '-' or
\* U+2212), two-digit hours, separator, two-digit minutes (00--59); the
\* result is in seconds
timezone_offset(s, strict) ==
    IF s = <<>> \/ Head(s) \notin {"+", "-", MINUS_SIGN} \/ LeadDigits(Tail(s), 2) < 2
    THEN Fail
    ELSE LET hours == DigitsValue(Take(Tail(s), 2), 0)
             c     == colon(strict, Drop(s, 3))
         IN  IF ~c.ok \/ LeadDigits(c.rest, 2) < 2
             THEN Fail
             ELSE LET minutes == DigitsValue(Take(c.rest, 2), 0)
                      seconds == hours * 3600 + minutes * 60
                  IN  IF minutes > 59
                      THEN Fail
                      ELSE [ok |-> TRUE,
                            v |-> IF Head(s) = "+" THEN seconds ELSE 0 - seconds,
                            rest |-> Drop(c.rest, 2)]

\* scan::timezone_offset_zulu: 'Z' or 'z' is offset zero
timezone_offset_zulu(s, strict) ==
    IF s # <<>> /\ Head(s) \in {"Z", "z"}
    THEN [ok |-> TRUE, v |-> 0, rest |-> Tail(s)]
    ELSE timezone_offset(s, strict)

\* Parsed::new() in front of the text still to be read
Parsed(s) ==
    [ok |-> TRUE, rest |-> s, year |-> 0, month |-> 0, day |-> 0, hour |-> 0,
     minute |-> 0, second |-> 0, nano |-> 0, offset |-> 0]

\* the values Parsed::set_year, set_month, set_day, set_hour, set_minute,
\* set_second, set_nanosecond and set_offset take
in_range(field, v) ==
    CASE field = "month" -> v >= 1 /\ v <= 12
      [] field = "day" -> v >= 1 /\ v <= 31
      [] field = "hour" -> v >= 0 /\ v <= 23
      [] field = "minute" -> v >= 0 /\ v <= 59
      [] field = "second" -> v >= 0 /\ v <= 60
      [] field = "nano" -> v >= 0 /\ v <= 999999999
      [] OTHER -> TRUE

\* the result r of a scanner stored in a field of p (try_consume! and
\* Parsed::set_*); once an item has failed, the parse has failed
p_set(p, field, r) ==
    IF p.ok /\ r.ok /\ in_range(field, r.v)
    THEN [p EXCEPT ![field] = r.v, !.rest = r.rest]
    ELSE [p EXCEPT !.ok = FALSE]

\* a fixed-width field of parse_rfc3339: scan::number(s, min, max)
p_number(p, field, min, max) == p_set(p, field, number(p.rest, min, max))

\* Item::Numeric(Month | Day | Hour | Minute | Second)
p_numeric(p, field, width) == p_set(p, field, numeric(p.rest, width))

\* Item::Numeric(Year)
p_year(p) == p_set(p, "year", numeric_year(p.rest))

\* Item::Literal
p_literal(p, lit) ==
    IF p.ok /\ StartsWith(p.rest, lit)
    THEN [p EXCEPT !.rest = Drop(p.rest, Len(lit))]
    ELSE [p EXCEPT !.ok = FALSE]

\* Item::Space
p_space(p) == [p EXCEPT !.rest = trim_left(p.rest)]

\* the date-time separator of parse_rfc3339 and parse_rfc3339_relaxed:
\* exactly one of 'T', 't' and ' '
p_tee(p) ==
    IF p.ok /\ p.rest # <<>> /\ Head(p.rest) \in {"T", "t", " "}
    THEN [p EXCEPT !.rest = Tail(p.rest)]
    ELSE [p EXCEPT !.ok = FALSE]

\* Fixed::Nanosecond
p_nanosecond(p) == p_set(p, "nano", opt_nanosecond(p.rest))

\* the offset: timezone_offset_zulu with the caller's separator
p_offset(p, strict) == p_set(p, "offset", timezone_offset_zulu(p.rest, strict))

(***************************************************************************)
(* NaiveDate: "%Y-%m-%d".                                                  *)
(***************************************************************************)
\* NaiveDate::parse_from_str(s, "%Y-%m-%d").ok(): the items Year, "-",
\* Month, "-", Day, then nothing left over
NaiveDate_parse_from_str(s) ==
    LET p == p_numeric(p_literal(p_numeric(p_literal(p_year(Parsed(s)),
                 <<"-">>), "month", 2), <<"-">>), "day", 2)
    IN  IF p.ok /\ p.rest = <<>> THEN from_ymd_opt(p.year, p.month, p.day) ELSE None

\* NaiveDate_format with the year written by "%y" (two digits) instead of "%Y"
NaiveDate_format_yy(d) ==
    Pad2(d.year % 100) \o <<"-">> \o Pad2(d.month) \o <<"-">> \o Pad2(d.day)

\* self.format("%Y-%m-%d").to_string()
NaiveDate_format(d) ==
    format_year(d.year) \o <<"-">> \o Pad2(d.month) \o <<"-">> \o Pad2(d.day)

NaiveDate_resolve(d) == StringScalar(NaiveDate_format(d))

NaiveDate_from_input_value(v) ==
    LET sv == as_string_value(v)
    IN  IF sv.tag = "Some" THEN NaiveDate_parse_from_str(sv.v) ELSE None

(***************************************************************************)
(* NaiveTime: "%H:%M:%S".                                                  *)
(***************************************************************************)
\* NaiveTime::parse_from_str(s, "%H:%M:%S").ok(): the items Hour, ":",
\* Minute, ":", Second, then nothing left over
NaiveTime_parse_from_str(s) ==
    LET p == p_numeric(p_literal(p_numeric(p_literal(p_numeric(Parsed(s),
                 "hour", 2), <<":">>), "minute", 2), <<":">>), "second", 2)
    IN  IF p.ok /\ p.rest = <<>> THEN to_naive_time(p.hour, p.minute, p.second, 0) ELSE None

\* the second field as written: a leap second is written as 60
written_second(t) == IF t.nano >= 1000000000 THEN t.second + 1 ELSE t.second

\* NaiveTime_format with the hour written by "%-H" (no padding) instead of "%H"
NaiveTime_format_unpadded(t) ==
    Decimal(t.hour) \o <<":">> \o Pad2(t.minute) \o <<":">> \o Pad2(written_second(t))

\* self.format("%H:%M:%S").to_string()
NaiveTime_format(t) ==
    Pad2(t.hour) \o <<":">> \o Pad2(t.minute) \o <<":">> \o Pad2(written_second(t))

NaiveTime_resolve(t) == StringScalar(NaiveTime_format(t))

NaiveTime_from_input_value(v) ==
    LET sv == as_string_value(v)
    IN  IF sv.tag = "Some" THEN NaiveTime_parse_from_str(sv.v) ELSE None

\* String_from_str without the kind test: every token is boxed as a string
String_from_str_any(tok) ==
    Ok(StringScalar(IF tok.kind = "String" THEN tok.text ELSE <<>>))

\* from_str of the four string scalars (identical bodies)
String_from_str(tok) ==
    IF tok.kind = "String" THEN Ok(StringScalar(tok.text)) ELSE UnexpectedToken(tok)

(***************************************************************************)
(* DateTime<FixedOffset> and DateTime<Utc>: RFC 3339 text.                 *)
(* A DateTime is its UTC date and time of day plus the offset in seconds   *)
(* east of UTC (chrono keeps the datetime in UTC).                         *)
(***************************************************************************)
\* NaiveTime::overflowing_add_offset: the time of day moved by delta
\* seconds, |delta| < 86400, and the number of days (-1, 0 or 1) it wrapped
\* by; the nanosecond field (leap second included) is carried over unchanged
time_overflowing_add_offset(time, delta) ==
    LET secs == time.hour * 3600 + time.minute * 60 + time.second + delta
        t    == secs % 86400
    IN  [time |-> [hour |-> t \div 3600, minute |-> (t \div 60) % 60,
                   second |-> t % 60, nano |-> time.nano],
         days |-> secs \div 86400]

\* NaiveDateTime::overflowing_add_offset: a day past either end of the
\* calendar is a day of the headroom
overflowing_add_offset(dt, off) ==
    LET r == time_overflowing_add_offset(dt.time, off)
        p == pred_opt(dt.date)
        n == succ_opt(dt.date)
    IN  [date |-> CASE r.days = 0 - 1 -> IF p.tag = "Some" THEN p.v ELSE BEFORE_MIN
                    [] r.days = 1 -> IF n.tag = "Some" THEN n.v ELSE AFTER_MAX
                    [] OTHER -> dt.date,
         time |-> r.time]

\* NaiveDateTime::checked_sub_offset: None past either end of the calendar
checked_sub_offset(dt, off) ==
    LET r == time_overflowing_add_offset(dt.time, 0 - off)
        d == CASE r.days = 0 - 1 -> pred_opt(dt.date)
               [] r.days = 1 -> succ_opt(dt.date)
               [] OTHER -> Some(dt.date)
    IN  IF d.tag = "Some" THEN Some([date |-> d.v, time |-> r.time]) ELSE None

\* FixedOffset::east_opt: less than a day either way
east_opt(secs) == IF secs > 0 - 86400 /\ secs < 86400 THEN Some(secs) ELSE None

\* Parsed::to_datetime: the fields name a local date and time and an offset;
\* both the local and the UTC date are dates of the calendar
to_datetime(p) ==
    LET date == from_ymd_opt(p.year, p.month, p.day)
        time == to_naive_time(p.hour, p.minute, p.second, p.nano)
        off  == east_opt(p.offset)
    IN  IF date.tag = "None" \/ time.tag = "None" \/ off.tag = "None"
        THEN None
        ELSE LET utc == checked_sub_offset([date |-> date.v, time |-> time.v], off.v)
             IN  IF utc.tag = "Some"
                 THEN Some([datetime |-> utc.v, offset |-> off.v])
                 ELSE None

\* parse_rfc3339, the date: four-digit year, '-', two-digit month, '-',
\* two-digit day, then 'T', 't' or ' '
rfc3339_date(s) ==
    p_tee(p_number(p_literal(p_number(p_literal(p_number(Parsed(s),
        "year", 4, 4), <<"-">>), "month", 2, 2), <<"-">>), "day", 2, 2))

\* the largest offset of RFC 3339, 23:59, in seconds
MAX_RFC3339_OFFSET == (23 * 60 + 59) * 60

\* parse_rfc3339, the time: two-digit hour, ':', minute, ':', second, the
\* optional fraction, and the mandatory offset written with a colon
rfc3339_time(p) ==
    LET q == p_offset(p_nanosecond(p_number(p_literal(p_number(p_literal(p_number(p,
                 "hour", 2, 2), <<":">>), "minute", 2, 2), <<":">>), "second", 2, 2)), TRUE)
    IN  IF q.ok /\ (q.offset < 0 - MAX_RFC3339_OFFSET \/ q.offset > MAX_RFC3339_OFFSET)
        THEN [q EXCEPT !.ok = FALSE]
        ELSE q

\* parse_rfc3339
parse_rfc3339(s) == rfc3339_time(rfc3339_date(s))

\* DateTime::parse_from_rfc3339(s).ok()
parse_from_rfc3339(s) ==
    LET p == parse_rfc3339(s)
    IN  IF p.ok /\ p.rest = <<>> THEN to_datetime(p) ELSE None

\* parse_rfc3339_relaxed, DATE_ITEMS and the separator: Year, Space, "-",
\* Month, Space, "-", Day, then 'T', 't' or ' '
from_str_date(s) ==
    p_tee(p_numeric(p_literal(p_space(p_numeric(p_literal(p_space(
        p_year(Parsed(s))), <<"-">>), "month", 2)), <<"-">>), "day", 2))

\* parse_rfc3339_relaxed, TIME_ITEMS: Hour, Space, ":", Minute, Space, ":",
\* Second, Nanosecond, Space
from_str_time(p) ==
    p_space(p_nanosecond(p_numeric(p_literal(p_space(p_numeric(
        p_literal(p_space(p_numeric(p, "hour", 2)), <<":">>), "minute", 2)),
        <<":">>), "second", 2)))

\* "UTC".as_bytes().eq_ignore_ascii_case(&s.as_bytes()[..3])
is_utc(s) ==
    /\ Len(s) >= 3
    /\ s[1] \in {"U", "u"} /\ s[2] \in {"T", "t"} /\ s[3] \in {"C", "c"}

\* parse_rfc3339_relaxed, the offset: "UTC" in any case, or
\* timezone_offset with colon_or_space as its separator
from_str_offset(p) ==
    IF p.ok /\ is_utc(p.rest)
    THEN [p EXCEPT !.offset = 0, !.rest = Drop(p.rest, 3)]
    ELSE p_offset(p, FALSE)

\* parse_rfc3339_relaxed
parse_rfc3339_relaxed(s) == from_str_offset(from_str_time(from_str_date(s)))

\* s.parse::<DateTime<FixedOffset>>().ok(): numeric items of flexible width,
\* whitespace allowed around the fields, offset separator optional, trailing
\* whitespace allowed
DateTime_from_str(s) ==
    LET p == parse_rfc3339_relaxed(s)
    IN  IF p.ok /\ trim_left(p.rest) = <<>> THEN to_datetime(p) ELSE None

\* DateTime::with_timezone(&Utc): same instant, offset zero
with_timezone_utc(dt) == [datetime |-> dt.datetime, offset |-> 0]

\* s.parse::<DateTime<Utc>>().ok()
DateTimeUtc_from_str(s) ==
    LET r == DateTime_from_str(s)
    IN  IF r.tag = "Some" THEN Some(with_timezone_utc(r.v)) ELSE None

\* the fraction as to_rfc3339 writes it: nothing, or 3, 6 or 9 digits
format_nanosecond(nano) ==
    IF nano = 0 THEN <<>>
    ELSE IF nano % 1000000 = 0 THEN <<".">> \o PadTo(Decimal(nano \div 1000000), 3)
    ELSE IF nano % 1000 = 0 THEN <<".">> \o PadTo(Decimal(nano \div 1000), 6)
    ELSE <<".">> \o PadTo(Decimal(nano), 9)

\* the offset as to_rfc3339 writes it (OffsetPrecision::Minutes): sign,
\* hours, ':', minutes, the seconds rounded to the nearest minute
format_offset(off) ==
    LET a       == IF off < 0 THEN 0 - off ELSE off
        minutes == (a + 30) \div 60
    IN  <<IF off < 0 THEN "-" ELSE "+">> \o Pad2(minutes \div 60) \o <<":">>
          \o Pad2(minutes % 60)

\* to_rfc3339 that writes the UTC date and time in front of the offset
to_rfc3339_utc_fields(dt) ==
    NaiveDate_format(dt.datetime.date) \o <<"T">> \o NaiveTime_format(dt.datetime.time)
      \o format_nanosecond(dt.datetime.time.nano % 1000000000) \o format_offset(dt.offset)

\* DateTime::to_rfc3339: the local date and time, the fraction, the offset
to_rfc3339(dt) ==
    LET local == overflowing_add_offset(dt.datetime, dt.offset)
        t     == local.time
    IN  NaiveDate_format(local.date) \o <<"T">> \o NaiveTime_format(t)
          \o format_nanosecond(t.nano % 1000000000) \o format_offset(dt.offset)

DateTimeFixedOffset_resolve(dt) == StringScalar(to_rfc3339(dt))

DateTimeFixedOffset_from_input_value(v) ==
    LET sv == as_string_value(v)
    IN  IF sv.tag = "Some" THEN parse_from_rfc3339(sv.v) ELSE None

DateTimeUtc_resolve(dt) == StringScalar(to_rfc3339(dt))

DateTimeUtc_from_input_value(v) ==
    LET sv == as_string_value(v)
    IN  IF sv.tag = "Some" THEN DateTimeUtc_from_str(sv.v) ELSE None

(***************************************************************************)
(* NaiveDateTime: a float holding the Unix timestamp.                      *)
(*                                                                         *)
(* An f64 is NaN, an infinity, or a finite sign-magnitude number whose     *)
(* magnitude is days * 86400 + sod + q / FracDen (0 <= sod < 86400,        *)
(* 0 <= q < FracDen).  An i64 is one of the two saturation values or       *)
(* days * 86400 + sod with 0 <= sod < 86400 (days may be negative).        *)
(***************************************************************************)
FracDen == 4

NaN == [cls |-> "nan"]

Infinity(neg) == [cls |-> "inf", neg |-> neg]

Finite(neg, days, sod, q) == [cls |-> "fin", neg |-> neg, days |-> days, sod |-> sod, q |-> q]

I64_MAX == [sat |-> "max"]

I64_MIN == [sat |-> "min"]

I64(days, sod) == [sat |-> "no", days |-> days, sod |-> sod]

\* f64_as_i64 that rounds toward minus infinity (f.floor() as i64)
f64_as_i64_floor(f) ==
    CASE f.cls = "nan" -> I64(0, 0)
      [] f.cls = "inf" -> IF f.neg THEN I64_MIN ELSE I64_MAX
      [] f.cls = "fin" ->
           IF ~f.neg THEN I64(f.days, f.sod)
           ELSE IF f.q # 0 THEN I64(0 - f.days - 1, 86400 - f.sod - 1)
           ELSE IF f.sod = 0 THEN I64(0 - f.days, 0)
           ELSE I64(0 - f.days - 1, 86400 - f.sod)

\* `f as i64`: NaN is 0, out-of-range values saturate, the fraction is dropped
\* (rounding toward zero)
f64_as_i64(f) ==
    CASE f.cls = "nan" -> I64(0, 0)
      [] f.cls = "inf" -> IF f.neg THEN I64_MIN ELSE I64_MAX
      [] f.cls = "fin" ->
           IF ~f.neg THEN I64(f.days, f.sod)
           ELSE IF f.sod = 0 THEN I64(0 - f.days, 0)
           ELSE I64(0 - f.days - 1, 86400 - f.sod)

\* `i as f64` (exact for every timestamp of the calendar range)
i64_as_f64(i) ==
    IF i.days >= 0 THEN Finite(FALSE, i.days, i.sod, 0)
    ELSE IF i.sod = 0 THEN Finite(TRUE, 0 - i.days, 0, 0)
    ELSE Finite(TRUE, 0 - i.days - 1, 86400 - i.sod, 0)

\* f64 ==
f64_eq(a, b) ==
    CASE a.cls = "nan" \/ b.cls = "nan" -> FALSE
      [] a.cls = "inf" \/ b.cls = "inf" -> a = b
      [] OTHER -> /\ a.days = b.days /\ a.sod = b.sod /\ a.q = b.q
                  /\ (a.neg = b.neg \/ (a.days = 0 /\ a.sod = 0 /\ a.q = 0))

\* YEAR_DELTAS[y]: leap days of the 400-year cycle before its year y
YEAR_DELTAS(y) == IF y = 0 THEN 0 ELSE ((y - 1) \div 4) - ((y - 1) \div 100) + 1

\* month and day of the ordinal-th day (1-based) of year y
RECURSIVE from_yo(_, _, _)
from_yo(y, m, ordinal) ==
    IF ordinal <= days_in_month(y, m)
    THEN [year |-> y, month |-> m, day |-> ordinal]
    ELSE from_yo(y, m + 1, ordinal - days_in_month(y, m))

\* the ordinal (1-based day of the year) of a date
RECURSIVE ordinal_of(_, _, _)
ordinal_of(y, m, d) == IF m = 1 THEN d ELSE ordinal_of(y, m - 1, d + days_in_month(y, m - 1))

\* NaiveDate::from_num_days_from_ce_opt
from_num_days_from_ce_opt(days_ce) ==
    LET d0      == days_ce + 365
        div400  == d0 \div 146097
        cycle   == d0 % 146097
        ym0     == cycle \div 365
        ord0    == cycle % 365
        ym      == IF ord0 < YEAR_DELTAS(ym0) THEN ym0 - 1 ELSE ym0
        ordinal == IF ord0 < YEAR_DELTAS(ym0)
                   THEN ord0 + 365 - YEAR_DELTAS(ym0 - 1) + 1
                   ELSE ord0 - YEAR_DELTAS(ym0) + 1
        year    == div400 * 400 + ym
    IN  IF year >= MIN_YEAR /\ year <= MAX_YEAR
        THEN Some(from_yo(year, 1, ordinal))
        ELSE None

\* NaiveDate::num_days_from_ce
num_days_from_ce(date) ==
    LET y0     == date.year - 1
        excess == IF y0 < 0 THEN 1 + ((0 - y0) \div 400) ELSE 0
        y      == y0 + excess * 400
        div100 == y \div 100
    IN  (0 - excess * 146097) + ((y * 1461) \div 4) - div100 + (div100 \div 4)
          + ordinal_of(date.year, date.month, date.day)

\* NaiveDateTime::from_timestamp_opt(secs, 0): a saturated i64 has no i32
\* day number
from_timestamp_opt(secs) ==
    IF secs.sat # "no"
    THEN None
    ELSE LET date == from_num_days_from_ce_opt(secs.days + 719163)
         IN  IF date.tag = "None"
             THEN None
             ELSE Some([date |-> date.v,
                        time |-> [hour |-> secs.sod \div 3600,
                                  minute |-> (secs.sod \div 60) % 60,
                                  second |-> secs.sod % 60, nano |-> 0]])

\* NaiveDateTime::timestamp
timestamp(dt) ==
    I64(num_days_from_ce(dt.date) - 719163,
        dt.time.hour * 3600 + dt.time.minute * 60 + dt.time.second)

NaiveDateTime_resolve(dt) == FloatScalar(i64_as_f64(timestamp(dt)))

NaiveDateTime_cast(f) == from_timestamp_opt(f64_as_i64(f))

\* NaiveDateTime_from_input_value that also accepts a string of digits
NaiveDateTime_from_input_value_coerce(v) ==
    IF v.kind = "String" /\ v.text # <<>> /\ IsDigits(v.text)
    THEN NaiveDateTime_cast(Finite(FALSE, DigitsValue(v.text, 0) \div 86400,
                                   DigitsValue(v.text, 0) % 86400, 0))
    ELSE LET fv == as_float_value(v)
         IN  IF fv.tag = "Some" THEN NaiveDateTime_cast(fv.v) ELSE None

NaiveDateTime_from_input_value(v) ==
    LET fv == as_float_value(v)
    IN  IF fv.tag = "Some" THEN NaiveDateTime_cast(fv.v) ELSE None

\* <f64 as ParseScalarValue>::from_str: a numeric token is boxed as a float,
\* a string token is rejected
f64_from_str(tok) ==
    IF tok.kind \in {"Float", "Int"} THEN Ok(FloatScalar(tok.num)) ELSE UnexpectedToken(tok)

NaiveDateTime_from_str(tok) == f64_from_str(tok)

(***************************************************************************)
(* Dispatch on the scalar's registered name.                               *)
(***************************************************************************)
StringScalars == {"DateTimeFixedOffset", "DateTimeUtc", "NaiveDate", "NaiveTime"}

Scalars == StringScalars \cup {"NaiveDateTime"}

resolve(scalar, d) ==
    CASE scalar = "DateTimeFixedOffset" -> DateTimeFixedOffset_resolve(d)
      [] scalar = "DateTimeUtc" -> DateTimeUtc_resolve(d)
      [] scalar = "NaiveDate" -> NaiveDate_resolve(d)
      [] scalar = "NaiveTime" -> NaiveTime_resolve(d)
      [] scalar = "NaiveDateTime" -> NaiveDateTime_resolve(d)

from_input_value(scalar, v) ==
    CASE scalar = "DateTimeFixedOffset" -> DateTimeFixedOffset_from_input_value(v)
      [] scalar = "DateTimeUtc" -> DateTimeUtc_from_input_value(v)
      [] scalar = "NaiveDate" -> NaiveDate_from_input_value(v)
      [] scalar = "NaiveTime" -> NaiveTime_from_input_value(v)
      [] scalar = "NaiveDateTime" -> NaiveDateTime_from_input_value(v)

from_str(scalar, tok) ==
    IF scalar = "NaiveDateTime" THEN NaiveDateTime_from_str(tok) ELSE String_from_str(tok)

(***************************************************************************)
(* Inputs.                                                                 *)
(***************************************************************************)
\* fractions of a float are enumerated in units of 1 / FracDen; fraction
\* texts are enumerated exhaustively up to MaxFracDigits digits; day numbers
\* are enumerated from 0 to MaxDays next to the calendar's edges
MaxFracDigits == 3

MaxDays == 2

DateParts ==
    { <<"2", "0", "1", "4", "-", "1", "1", "-", "2", "8">>,
      <<"9", "9", "9", "9", "-", "1", "2", "-", "3", "1">>,
      <<"0", "0", "0", "0", "-", "0", "1", "-", "0", "1">>,
      <<"2", "0", "1", "6", "-", "0", "2", "-", "2", "9">>,
      <<"2", "0", "1", "4", "-", "0", "2", "-", "3", "0">>,
      <<"2", "0", "1", "4", "-", "1", "-", "2", "8">> }

TimeParts ==
    { <<"2", "1", ":", "0", "0", ":", "0", "9">>,
      <<"0", "0", ":", "0", "0", ":", "0", "0">>,
      <<"2", "3", ":", "5", "9", ":", "6", "0">>,
      <<"2", "4", ":", "0", "0", ":", "0", "0">> }

FracParts ==
    {<<>>} \cup { <<".">> \o f : f \in UNION { [1..k -> {"0", "5"}] : k \in 1..MaxFracDigits } }
      \cup { <<".", "1", "2", "3", "4", "5", "6">>,
      <<".", "5", "0", "0", "0", "0", "0">>,
      <<".", "1", "2", "3", "4", "5", "6", "7", "8", "9">>,
      <<".", "1", "2", "3", "4", "5", "6", "7", "8", "9", "1">>,
      <<".">> }

OffsetParts ==
    { <<"Z">>,
      <<"+", "0", "9", ":", "0", "0">>,
      <<"-", "0", "8", ":", "0", "0">>,
      <<"+", "0", "0", ":", "0", "0">>,
      <<"-", "0", "0", ":", "0", "0">>,
      <<"-", "0", "1", ":", "0", "0">>,
      <<"+", "2", "3", ":", "5", "9">>,
      <<"+", "2", "4", ":", "0", "0">>,
      <<"+", "0", "9", "0", "0">>,
      <<>> }

Rfc3339Texts ==
    { d \o <<"T">> \o t \o f \o o :
        d \in DateParts, t \in TimeParts, f \in FracParts, o \in OffsetParts }
      \cup { <<>>,
        <<"2", "0", "1", "4", "-", "1", "1", "-", "2", "8">>,
        <<"2", "0", "1", "4", "-", "1", "1", "-", "2", "8", "2", "1", ":", "0", "0", ":", "0", "9", "Z">>,
        <<"2", "1", ":", "0", "0", ":", "0", "9", "+", "0", "9", ":", "0", "0">>,
        <<"2", "0", "1", "4", "-", "1", "1", "-", "2", "8", "T", "2", "1", ":", "0", "0", "+", "0", "9", ":", "0", "0">>,
        <<"2", "0", "1", "4", "-", "1", "1", "-", "2", "8", "T", "2", "1", ":", "0", "0", ":", "0", "9", "+", "0", "9", ":", "0", "0", "x">>,
        <<"1", "4", "-", "1", "1", "-", "2", "8", "T", "2", "1", ":", "0", "0", ":", "0", "9", "+", "0", "9", ":", "0", "0">>,
        <<"2", "0", "1", "4", "-", "1", "1", "-", "2", "8", "T", "9", ":", "0", "0", ":", "0", "9", "+", "0", "9", ":", "0", "0">>,
        <<"1", "9", "9", "6", "-", "1", "2", "-", "1", "9", "T", "1", "6", ":", "3", "9", ":", "5", "7", "-", "0", "8", ":", "0", "0">> }

YearTexts ==
    { <<"1", "9", "9", "6">>,
      <<"9", "6">>,
      <<"0", "0", "0", "0">>,
      <<"9", "9", "9", "9">>,
      <<"2", "0", "1", "5">>,
      <<"2", "0", "1", "6">>,
      <<"+", "1", "2", "3", "4", "5">>,
      <<"1", "9", "9", "6", "0">> }

MonthTexts ==
    { <<"1", "2">>,
      <<"1">>,
      <<"0", "1">>,
      <<"2">>,
      <<"1", "3">>,
      <<"0", "0">> }

DayTexts ==
    { <<"1", "9">>,
      <<"1">>,
      <<"0", "1">>,
      <<"2", "9">>,
      <<"3", "0">>,
      <<"3", "1">>,
      <<"3", "2">>,
      <<"0", "0">> }

DateTexts ==
    { y \o sep \o m \o sep \o d \o tl :
        y \in YearTexts, sep \in {<<"-">>, <<"/">>}, m \in MonthTexts, d \in DayTexts,
        tl \in {<<>>, <<"x">>} }
      \cup { <<>>,
        <<"1", "9", "9", "6">>,
        <<"1", "9", "9", "6", "-", "1", "2">>,
        <<"1", "9", "9", "6", "1", "2", "1", "9">>,
        <<"1", "9", "-", "1", "2", "-", "1", "9", "9", "6">>,
        <<"1", "2", "-", "1", "9", "-", "1", "9", "9", "6">>,
        <<"-", "0", "0", "0", "1", "-", "0", "1", "-", "0", "1">>,
        <<" ", "1", "9", "9", "6", "-", "1", "2", "-", "1", "9">>,
        <<"1", "9", "9", "6", "-", "\t", "1", "2", "-", "1", "9">>,
        <<"1", "9", "9", "6", "-", "1", "2", "-", "\n", "1", "9">>,
        <<"1", "9", "9", "6", " ", "-", "1", "2", "-", "1", "9">>,
        <<"1", "9", "9", "6", "-", "1", "2", "-", "1", "9", " ">>,
        <<"+", "2", "6", "2", "1", "4", "2", "-", "1", "2", "-", "3", "1">>,
        <<"1", "9", "9", "6", "-", "", "1", "2", "-", "1", "9">>,
        <<"1", "9", "9", "6", "-", "1", "2", "-", " ", "1", "9">>,
        <<"+", "2", "1", "4", "7", "4", "8", "3", "6", "4", "7", "-", "1", "2", "-", "1", "9">> }

HourTexts ==
    { <<"2", "1">>,
      <<"9">>,
      <<"0", "9">>,
      <<"0">>,
      <<"2", "3">>,
      <<"2", "4">>,
      <<"1", "6">> }

MinuteTexts ==
    { <<"1", "2">>,
      <<"7">>,
      <<"0", "7">>,
      <<"5", "9">>,
      <<"6", "0">> }

SecondTexts ==
    { <<"1", "9">>,
      <<"8">>,
      <<"0", "8">>,
      <<"5", "9">>,
      <<"6", "0">>,
      <<"6", "1">> }

TimeTexts ==
    { h \o sep \o m \o sep \o sc \o tl :
        h \in HourTexts, sep \in {<<":">>, <<"-">>}, m \in MinuteTexts, sc \in SecondTexts,
        tl \in {<<>>, <<"x">>, <<".", "5">>} }
      \cup { <<>>,
        <<"2", "1">>,
        <<"2", "1", ":", "1", "2">>,
        <<"2", "1", "1", "2", "1", "9">>,
        <<"2", "1", ":", "1", "2", ":", "1", "9", " ">>,
        <<" ", "2", "1", ":", "1", "2", ":", "1", "9">>,
        <<"2", "1", ":", "\t", "1", "2", ":", "1", "9">>,
        <<"2", "1", " ", ":", "1", "2", ":", "1", "9">>,
        <<"2", "1", ":", "", "1", "2", ":", "1", "9">>,
        <<"2", "1", ":", "1", "2", ":", " ", "1", "9">> }

NumberTexts ==
    { <<"1", "0", "0", "0", "0", "0", "0", "0", "0", "0">>,
      <<"1", "0", "0", "0", "0", "0", "0", "0", "0", "0", ".", "0">>,
      <<"0">>,
      <<"-", "1", ".", "5">>,
      <<>>,
      <<"N", "a", "N">>,
      <<"1", "e", "9">> }

DaySamples == (0..MaxDays) \cup {11574, 16990, 95026236, 95026237, 96465292, 96465293}

Floats ==
    {NaN, Infinity(FALSE), Infinity(TRUE)}
      \cup { Finite(neg, days, sod, q) :
               neg \in BOOLEAN, days \in DaySamples, sod \in {0, 1, 6400, 33011, 86399},
               q \in 0..(FracDen - 1) }

\* RFC 3339 allows 't' and 'z' in lower case
LowerCaseTexts ==
    { <<"2", "0", "1", "4", "-", "1", "1", "-", "2", "8", "t", "2", "1", ":", "0", "0", ":", "0", "9", "+", "0", "9", ":", "0", "0">>,
      <<"2", "0", "1", "4", "-", "1", "1", "-", "2", "8", "t", "2", "1", ":", "0", "0", ":", "0", "9", ".", "0", "5", "0", "-", "0", "8", ":", "0", "0">>,
      <<"2", "0", "1", "4", "-", "1", "1", "-", "2", "8", "T", "2", "1", ":", "0", "0", ":", "0", "9", "z">>,
      <<"2", "0", "1", "4", "-", "1", "1", "-", "2", "8", "t", "2", "1", ":", "0", "0", ":", "0", "9", "z">> }

\* a space in the place of the 'T'
SpaceTexts ==
    { <<"2", "0", "1", "4", "-", "1", "1", "-", "2", "8", " ", "2", "1", ":", "0", "0", ":", "0", "9", "+", "0", "9", ":", "0", "0">>,
      <<"2", "0", "1", "4", "-", "1", "1", "-", "2", "8", " ", "2", "1", ":", "0", "0", ":", "0", "9", ".", "5", "Z">> }

\* U+2212 in the place of the '-' of the offset
MinusSignTexts ==
    { <<"2", "0", "1", "4", "-", "1", "1", "-", "2", "8", "T", "2", "1", ":", "0", "0", ":", "0", "9", MINUS_SIGN, "0", "9", ":", "0", "0">>,
      <<"2", "0", "1", "4", "-", "1", "1", "-", "2", "8", "T", "2", "1", ":", "0", "0", ":", "0", "9", ".", "5", MINUS_SIGN, "0", "0", ":", "3", "0">> }

\* texts in the relaxed form of RFC 3339: "UTC" for the offset, whitespace
\* around the fields, years written with a sign
RelaxedTexts ==
    { <<"2", "0", "1", "4", "-", "1", "1", "-", "2", "8", "T", "2", "1", ":", "0", "0", ":", "0", "9", "U", "T", "C">>,
      <<"2", "0", "1", "4", "-", "1", "1", "-", "2", "8", "T", "2", "1", ":", "0", "0", ":", "0", "9", " ", "u", "t", "c">>,
      <<"2", "0", "1", "4", "-", "1", "1", "-", "2", "8", "t", "2", "1", ":", "0", "0", ":", "0", "9", ".", "0", "5", "0", " ", "U", "t", "c">>,
      <<"2", "0", "1", "4", "-", "1", "1", "-", "2", "8", " ", " ", "2", "1", ":", "0", "0", ":", "0", "9", "Z">>,
      <<"2", "0", "1", "4", "-", "1", "1", "-", "2", "8", " ", "T", "2", "1", ":", "0", "0", ":", "0", "9", "Z">>,
      <<"2", "0", "1", "4", "-", "1", "1", "-", "2", "8", "T", "2", "1", ":", "0", "0", ":", "0", "9", "\t", "+", "0", "9", ":", "0", "0">>,
      <<" ", "2", "0", "1", "4", "-", "1", "1", "-", "2", "8", "T", "2", "1", ":", "0", "0", ":", "0", "9", "Z">>,
      <<"2", "0", "1", "4", "-", "1", "1", "-", "2", "8", "T", "2", "1", ":", "0", "0", ":", "0", "9", "Z", " ">>,
      <<"2", "0", "1", "4", "-", "1", "1", "-", "2", "8", "T", "2", "1", ":", "0", "0", ":", "0", "9", "Z", " ", "x">>,
      <<"2", "0", "1", "4", " ", "-", " ", "1", "1", " ", "-", " ", "2", "8", "T", "2", "1", " ", ":", " ", "0", "0", " ", ":", " ", "0", "9", "Z">>,
      <<"2", "0", "1", "4", "-", "\t", "1", "1", "-", "2", "8", "T", "2", "1", ":", "0", "0", ":", "0", "9", "Z">>,
      <<"2", "0", "1", "4", "-", "1", "1", "-", "2", "8", "T", "2", "1", ":", "0", "0", ":", "0", "9", "+", "0", "9", " ", "0", "0">>,
      <<"2", "0", "1", "4", "-", "1", "1", "-", "2", "8", "T", "2", "1", ":", "0", "0", ":", "0", "9", "+", "0", "9", "\t", "0", "0">>,
      <<"2", "0", "1", "4", "-", "1", "1", "-", "2", "8", "T", "2", "1", ":", "0", "0", ":", "0", "9", "+", "0", "9">>,
      <<"2", "0", "1", "4", "-", "1", "1", "-", "2", "8", "T", "2", "1", ":", "0", "0", ":", "0", "9", "U", "T">>,
      <<"+", "1", "2", "3", "4", "5", "-", "0", "1", "-", "0", "1", "T", "0", "0", ":", "0", "0", ":", "0", "0", "Z">>,
      <<"-", "0", "0", "0", "1", "-", "1", "2", "-", "3", "1", "T", "2", "3", ":", "5", "9", ":", "5", "9", "Z">>,
      <<"+", "2", "6", "2", "1", "4", "2", "-", "1", "2", "-", "3", "1", "T", "2", "3", ":", "5", "9", ":", "5", "9", "+", "0", "1", ":", "0", "0">>,
      <<"+", "2", "6", "2", "1", "4", "2", "-", "1", "2", "-", "3", "1", "T", "2", "3", ":", "5", "9", ":", "5", "9", "-", "0", "1", ":", "0", "0">>,
      <<"+", "2", "6", "2", "1", "4", "3", "-", "0", "1", "-", "0", "1", "T", "0", "0", ":", "0", "0", ":", "0", "0", "Z">>,
      <<"-", "2", "6", "2", "1", "4", "3", "-", "0", "1", "-", "0", "1", "T", "0", "0", ":", "0", "0", ":", "0", "0", "-", "0", "1", ":", "0", "0">>,
      <<"-", "2", "6", "2", "1", "4", "3", "-", "0", "1", "-", "0", "1", "T", "0", "0", ":", "0", "0", ":", "0", "0", "+", "0", "1", ":", "0", "0">>,
      <<"-", "2", "6", "2", "1", "4", "4", "-", "1", "2", "-", "3", "1", "T", "2", "3", ":", "5", "9", ":", "5", "9", "Z">>,
      <<"+", "0", "0", "0", "0", "0", "0", "0", "0", "0", "2", "0", "1", "4", "-", "1", "1", "-", "2", "8", "T", "2", "1", ":", "0", "0", ":", "0", "9", "Z">>,
      <<"+", "2", "1", "4", "7", "4", "8", "3", "6", "4", "8", "-", "1", "1", "-", "2", "8", "T", "2", "1", ":", "0", "0", ":", "0", "9", "Z">>,
      <<"2", "0", "1", "4", "-", "", "1", "1", "-", "2", "8", "T", "2", "1", ":", "0", "0", ":", "0", "9", "Z">>,
      <<"2", "0", "1", "4", "-", "1", "1", "-", "2", "8", " ", "", "2", "1", ":", "0", "0", ":", "0", "9", "Z">>,
      <<"2", "0", "1", "4", "-", "1", "1", "-", "2", "8", "T", "2", "1", ":", "0", "0", ":", "0", "9", " ", " ", "Z">>,
      <<"2", "0", "1", "4", "-", "1", "1", "-", "2", "8", "T", "2", "1", ":", "0", "0", ":", "0", "9", "U+2000", "Z">>,
      <<"2", "0", "1", "4", "-", "1", "1", "-", "2", "8", "T", "2", "1", ":", "0", "0", ":", "0", "9", "Z", "">>,
      <<"2", "0", "1", "4", "-", "1", "1", "-", "2", "8", "T", "2", "1", ":", "0", "0", ":", "0", "9", "+", "0", "9", " ", ":", " ", "0", "0">>,
      <<"2", "0", "1", "4", "-", "1", "1", "-", "2", "8", "T", "2", "1", ":", "0", "0", ":", "0", "9", "+", "0", "9", ":", " ", ":", "0", "0">>,
      <<"2", "0", "1", "4", "-", "1", "1", "-", "2", "8", "T", "2", "1", ":", "0", "0", ":", "0", "9", "+", "0", "9", ":", ":", "0", "0">>,
      <<"2", "0", "1", "4", "-", "1", "1", "-", "2", "8", "T", "2", "1", ":", "0", "0", ":", "0", "9", "+", "0", "9", "", "0", "0">>,
      <<"+", "2", "1", "4", "7", "4", "8", "3", "6", "4", "7", "-", "0", "1", "-", "0", "1", "T", "0", "0", ":", "0", "0", ":", "0", "0", "Z">>,
      <<"-", "2", "1", "4", "7", "4", "8", "3", "6", "4", "8", "-", "0", "1", "-", "0", "1", "T", "0", "0", ":", "0", "0", ":", "0", "0", "Z">>,
      <<"-", "2", "1", "4", "7", "4", "8", "3", "6", "4", "9", "-", "0", "1", "-", "0", "1", "T", "0", "0", ":", "0", "0", ":", "0", "0", "Z">>,
      <<"+", "1", "0", "0", "0", "0", "0", "0", "0", "0", "0", "-", "0", "1", "-", "0", "1", "T", "0", "0", ":", "0", "0", ":", "0", "0", "Z">> }

TextsOf(scalar) ==
    CASE scalar = "DateTimeFixedOffset" ->
           Rfc3339Texts \cup LowerCaseTexts \cup SpaceTexts \cup MinusSignTexts
      [] scalar = "DateTimeUtc" ->
           Rfc3339Texts \cup LowerCaseTexts \cup SpaceTexts \cup MinusSignTexts
             \cup RelaxedTexts
      [] scalar = "NaiveDate" -> DateTexts
      [] scalar = "NaiveTime" -> TimeTexts
      [] scalar = "NaiveDateTime" -> NumberTexts

SampleFloats ==
    {NaN, Finite(FALSE, 11574, 6400, 0), Finite(FALSE, 0, 61, 1), Finite(TRUE, 0, 1, 0)}

\* the wire values a variable of the scalar's type may be bound to
WireValues(scalar) ==
    { StringScalar(t) : t \in TextsOf(scalar) }
      \cup { FloatScalar(f) : f \in IF scalar = "NaiveDateTime" THEN Floats ELSE SampleFloats }
      \cup {NullValue, BooleanScalar(TRUE), BooleanScalar(FALSE)}

SampleTexts ==
    { <<>>,
      <<"2", "0", "1", "4", "-", "1", "1", "-", "2", "8", "T", "2", "1", ":", "0", "0", ":", "0", "9", "+", "0", "9", ":", "0", "0">>,
      <<"2", "0", "1", "4", "-", "1", "1", "-", "2", "8", "T", "2", "1", ":", "0", "0", ":", "0", "9", "Z">>,
      <<"1", "9", "9", "6", "-", "1", "2", "-", "1", "9">>,
      <<"9", "6", "-", "1", "-", "1">>,
      <<"2", "1", ":", "1", "2", ":", "1", "9">>,
      <<"9", ":", "1", ":", "2">>,
      <<"1", "0", "0", "0", "0", "0", "0", "0", "0", "0">>,
      <<"n", "o", "t", " ", "a", " ", "d", "a", "t", "e">> }

\* the literal tokens of the query language: ScalarToken::String, ::Int, ::Float
Tokens ==
    { [kind |-> "String", text |-> t] : t \in SampleTexts }
      \cup { [kind |-> "Float", num |-> f] : f \in SampleFloats \ {NaN} }
      \cup { [kind |-> "Int", num |-> Finite(neg, d, 6400, 0)] : neg \in BOOLEAN, d \in 0..MaxDays }

Dates ==
    { [year |-> y, month |-> m, day |-> d] :
        y \in {0, 96, 1996, 2015, 2016, 9999}, m \in 1..12, d \in {1, 9, 14, 28} }
      \cup { [year |-> y, month |-> m, day |-> days_in_month(y, m)] :
               y \in {0, 1900, 2015, 2016, 9999}, m \in 1..12 }

Times ==
    { [hour |-> h, minute |-> m, second |-> sc, nano |-> 0] :
        h \in 0..23, m \in {0, 7, 10, 59}, sc \in {0, 8, 11, 59} }

\* the values a field of the scalar's type may resolve to
FieldValues(scalar) ==
    CASE scalar = "NaiveDate" -> Dates
      [] scalar = "NaiveTime" -> Times
      [] scalar = "NaiveDateTime" ->
           { [date |-> d, time |-> t] :
               d \in { x \in Dates : x.day \in {1, 31} /\ x.month \in {1, 7, 12} },
               t \in { x \in Times : x.hour \in {0, 9, 23} /\ x.minute \in {0, 10, 59} } }
      [] scalar = "DateTimeUtc" ->
           { [datetime |-> [date |-> d, time |-> [t EXCEPT !.nano = n]], offset |-> 0] :
               d \in { x \in Dates : x.day \in {1, 31} /\ x.month \in {1, 12} }
                       \cup {[year |-> 10000, month |-> 1, day |-> 1],
                             [year |-> 0 - 1, month |-> 12, day |-> 31]},
               t \in { x \in Times : x.hour \in {0, 23} /\ x.minute \in {1, 59}
                                       /\ x.second \in {1, 59} },
               n \in {0, 5000000, 5000, 5} }
      [] scalar = "DateTimeFixedOffset" ->
           { [datetime |-> [date |-> d, time |-> t], offset |-> o] :
               d \in { x \in Dates : x.day = 14 /\ x.month = 3 /\ x.year \in {1996, 2015} },
               t \in { x \in Times : x.hour \in {0, 16} /\ x.minute = 59 /\ x.second = 59 },
               o \in {0, 0 - 28800, 32400, 19800} }
             \cup { [datetime |-> [date |-> d, time |-> t], offset |-> o] :
                      d \in {[year |-> MAX_YEAR, month |-> 12, day |-> 31],
                             [year |-> MIN_YEAR, month |-> 1, day |-> 1]},
                      t \in { x \in Times : x.hour \in {0, 23} /\ x.minute = 59 /\ x.second = 59 },
                      o \in {0 - 3600, 3600} }

(***************************************************************************)
(* The engine's three uses of a scalar: binding a variable                 *)
(* (from_input_value), classifying a literal token (from_str) and          *)
(* resolving a field (resolve); a resolved value that is sent back as a    *)
(* variable is decoded again.                                              *)
(***************************************************************************)
VARIABLES scalar, pc, wire, value, out, back, lit, decodes

vars == <<scalar, pc, wire, value, out, back, lit, decodes>>

Init ==
    /\ scalar \in Scalars
    /\ \/ /\ pc = "variable"
          /\ wire \in WireValues(scalar)
          /\ value = None
       \/ /\ pc = "literal"
          /\ wire \in Tokens
          /\ value = None
       \/ /\ pc = "field"
          /\ wire = NullValue
          /\ value \in { Some(d) : d \in FieldValues(scalar) }
    /\ out = NullValue
    /\ back = None
    /\ lit = None
    /\ decodes = 0

\* from_input_value on the bound variable
FromInputValue ==
    /\ pc = "variable"
    /\ value' = from_input_value(scalar, wire)
    /\ decodes' = decodes + 1
    /\ pc' = "decoded"
    /\ UNCHANGED <<scalar, wire, out, back, lit>>

\* resolve on a decoded or field value
Resolve ==
    /\ pc \in {"decoded", "field"}
    /\ value.tag = "Some"
    /\ out' = resolve(scalar, value.v)
    /\ pc' = "resolved"
    /\ UNCHANGED <<scalar, wire, value, back, lit, decodes>>

\* from_input_value on what resolve returned
FromResolved ==
    /\ pc = "resolved"
    /\ back' = from_input_value(scalar, out)
    /\ decodes' = decodes + 1
    /\ pc' = "redecoded"
    /\ UNCHANGED <<scalar, wire, value, out, lit>>

\* from_str on the literal token
FromStr ==
    /\ pc = "literal"
    /\ lit' = from_str(scalar, wire)
    /\ pc' = "classified"
    /\ UNCHANGED <<scalar, wire, value, out, back, decodes>>

Next == FromInputValue \/ Resolve \/ FromResolved \/ FromStr

Spec == Init /\ [][Next]_vars

(***************************************************************************)
(* RFC 3339 grammar (section 5.6), by field.                               *)
(***************************************************************************)
Num2(s, i) == DigitVal(s[i]) * 10 + DigitVal(s[i + 1])

Rfc3339FullDate(d) ==
    /\ Len(d) = 10 /\ d[5] = "-" /\ d[8] = "-"
    /\ IsDigits(SubSeq(d, 1, 4)) /\ IsDigits(SubSeq(d, 6, 7)) /\ IsDigits(SubSeq(d, 9, 10))
    /\ Num2(d, 6) \in 1..12
    /\ Num2(d, 9) \in 1..days_in_month(Num2(d, 1) * 100 + Num2(d, 3), Num2(d, 6))

Rfc3339PartialTime(t) ==
    /\ Len(t) = 8 /\ t[3] = ":" /\ t[6] = ":"
    /\ IsDigits(SubSeq(t, 1, 2)) /\ IsDigits(SubSeq(t, 4, 5)) /\ IsDigits(SubSeq(t, 7, 8))
    /\ Num2(t, 1) <= 23 /\ Num2(t, 4) <= 59 /\ Num2(t, 7) <= 60

Rfc3339SecFrac(f) == f = <<>> \/ (Len(f) >= 2 /\ f[1] = "." /\ IsDigits(Tail(f)))

Rfc3339NumOffset(o) ==
    /\ Len(o) = 6 /\ o[1] \in {"+", "-"} /\ o[4] = ":"
    /\ IsDigits(SubSeq(o, 2, 3)) /\ IsDigits(SubSeq(o, 5, 6))
    /\ Num2(o, 2) <= 23 /\ Num2(o, 5) <= 59

\* the valid RFC 3339 strings among the inputs, with a numeric offset or Z
ValidRfc3339(numericOnly, fracs, offsets) ==
    { d \o sep \o t \o f \o o :
        d \in { x \in DateParts : Rfc3339FullDate(x) },
        sep \in {<<"T">>},
        t \in { x \in TimeParts : Rfc3339PartialTime(x) },
        f \in { x \in fracs : Rfc3339SecFrac(x) },
        o \in { x \in offsets : Rfc3339NumOffset(x) \/ (~numericOnly /\ x = <<"Z">>) } }

ValidRfc3339Texts ==
    ValidRfc3339(FALSE, FracParts, OffsetParts) \cup LowerCaseTexts
      \cup {<<"1", "9", "9", "6", "-", "1", "2", "-", "1", "9", "T", "1", "6", ":", "3", "9", ":", "5", "7", "-", "0", "8", ":", "0", "0">>}

\* a fraction with no trailing zero digit
NoRedundantFrac(f) == f = <<>> \/ f[Len(f)] # "0"

\* a fraction as the serializer writes it: none, or 3, 6 or 9 digits of
\* which the last three are not all zero
SerializedFrac(f) ==
    \/ f = <<>>
    \/ /\ Len(f) \in {4, 7, 10}
       /\ SubSeq(f, Len(f) - 2, Len(f)) # <<"0", "0", "0">>

(***************************************************************************)
(* C1: OffsetDateTime round trip.                                          *)
(***************************************************************************)
\* C1 (value part): every valid RFC 3339 string with an explicit offset
\* decodes to some value v, and serializing v and decoding the result gives
\* v again, the same instant and the same offset.
C1_ValueRoundTrip ==
    (scalar = "DateTimeFixedOffset" /\ wire.kind = "String" /\ wire.text \in ValidRfc3339Texts)
      => /\ pc \in {"decoded", "resolved", "redecoded"} => value.tag = "Some"
         /\ pc = "redecoded" => back = value

\* C1 as stated: in addition, a string with a numeric offset and no redundant
\* (trailing zero) fraction digit is serialized back to itself.
C1_Original ==
    /\ C1_ValueRoundTrip
    /\ (/\ scalar = "DateTimeFixedOffset" /\ pc = "resolved" /\ wire.kind = "String"
        /\ wire.text \in ValidRfc3339(TRUE, {f \in FracParts : NoRedundantFrac(f)}, OffsetParts))
         => out = StringScalar(wire.text)

\* C1 as amended: the string is serialized back to itself when it is written
\* with an upper-case T, a numeric offset other than -00:00, and a fraction
\* that is absent or has 3, 6 or 9 digits whose last three are not all zero.
C1_Amended ==
    /\ C1_ValueRoundTrip
    /\ (/\ scalar = "DateTimeFixedOffset" /\ pc = "resolved" /\ wire.kind = "String"
        /\ wire.text \in ValidRfc3339(TRUE, {f \in FracParts : SerializedFrac(f)},
                                      OffsetParts \ {<<"-", "0", "0", ":", "0", "0">>}))
         => out = StringScalar(wire.text)

C1_Witness ==
    /\ scalar = "DateTimeFixedOffset" /\ pc = "redecoded"
    /\ wire = StringScalar(<<"2", "0", "1", "4", "-", "1", "1", "-", "2", "8", "T", "2", "1", ":", "0", "0", ":", "0", "9", ".", "0", "5", "0", "+", "0", "9", ":", "0", "0">>)
    /\ out = wire
    /\ back = value /\ value.tag = "Some" /\ value.v.offset = 32400

(***************************************************************************)
(* C2: kind rejection in from_str.                                         *)
(***************************************************************************)
\* C2: from_str of a string scalar boxes a String token's text unchanged and
\* rejects every other token with UnexpectedToken carrying that token;
\* from_str of NaiveDateTime rejects a String token; and classifying a token
\* never decodes it.
C2_KindRejection ==
    pc = "classified" =>
      /\ (scalar \in StringScalars /\ wire.kind = "String")
           => lit = Ok(StringScalar(wire.text))
      /\ (scalar \in StringScalars /\ wire.kind # "String")
           => lit = UnexpectedToken(wire)
      /\ (scalar = "NaiveDateTime" /\ wire.kind = "String")
           => lit = UnexpectedToken(wire)
      /\ decodes = 0 /\ value = None

C2_Witness ==
    /\ pc = "classified" /\ scalar = "DateTimeFixedOffset"
    /\ wire.kind = "Float" /\ lit.tag = "Err" /\ lit.token = wire /\ decodes = 0

(***************************************************************************)
(* C3: NaiveDateTime lossy round trip.                                     *)
(***************************************************************************)
\* the largest whole number not above a finite float
Floor(f) ==
    IF f.q = 0 \/ ~f.neg THEN Finite(f.neg, f.days, f.sod, 0)
    ELSE IF f.sod = 86399 THEN Finite(TRUE, f.days + 1, 0, 0)
    ELSE Finite(TRUE, f.days, f.sod + 1, 0)

\* the whole number nearest to a finite float in the direction of zero
Trunc(f) == Finite(f.neg, f.days, f.sod, 0)

C3_Case ==
    /\ scalar = "NaiveDateTime" /\ pc = "resolved"
    /\ wire.kind = "Float" /\ wire.num.cls = "fin"

\* C3 as stated: decoding a float in range and serializing the value gives
\* the float itself when it is whole and its floor otherwise, for negative
\* as well as positive floats.
C3_Original == C3_Case => (out.kind = "Float" /\ f64_eq(out.num, Floor(wire.num)))

\* C3 as amended: the round trip gives the float itself when it is whole and
\* otherwise the float with its fraction dropped, that is rounded toward
\* zero: floor(f) for positive f, ceil(f) for negative f.
C3_Amended == C3_Case => (out.kind = "Float" /\ f64_eq(out.num, Trunc(wire.num)))

C3_Witness ==
    /\ C3_Case /\ wire.num.neg /\ wire.num.q # 0 /\ wire.num.days > 0
    /\ out.num = Trunc(wire.num) /\ ~f64_eq(out.num, Floor(wire.num))

(***************************************************************************)
(* C4: strict grammar of CalendarDate and WallClockTime.                   *)
(***************************************************************************)
\* YYYY-MM-DD naming a real calendar date
StrictDateText(t) == Rfc3339FullDate(t)

\* H:M:S with two-digit minute and second and a one- or two-digit hour
StrictTimeText(t) ==
    LET u == IF Len(t) = 7 THEN <<"0">> \o t ELSE t
    IN  /\ Len(t) \in {7, 8}
        /\ Rfc3339PartialTime(u)
        /\ Num2(u, 7) <= 59

\* C4: CalendarDate decodes exactly the texts YYYY-MM-DD that name a real
\* date, WallClockTime exactly the texts H:M:S in which only the hour may
\* omit its leading zero; every other text ("96-1-1") decodes to None.
C4_StrictGrammar ==
    (pc = "decoded" /\ wire.kind = "String") =>
      /\ scalar = "NaiveDate" =>
           /\ value.tag = "Some" <=> StrictDateText(wire.text)
           /\ value.tag = "Some" =>
                value.v = [year |-> Num2(wire.text, 1) * 100 + Num2(wire.text, 3),
                           month |-> Num2(wire.text, 6), day |-> Num2(wire.text, 9)]
      /\ scalar = "NaiveTime" =>
           (value.tag = "Some" <=> StrictTimeText(wire.text))

(***************************************************************************)
(* C5: WallClockTime serialization.                                        *)
(***************************************************************************)
C5_Case ==
    /\ scalar = "NaiveTime" /\ pc = "resolved"
    /\ value.v.nano = 0

\* C5 as stated: a wall-clock time is written H:M:S with the hour not
\* zero-padded, a single digit below 10.
C5_Original ==
    C5_Case =>
      out = StringScalar(Decimal(value.v.hour) \o <<":">> \o Pad2(value.v.minute)
                           \o <<":">> \o Pad2(value.v.second))

\* C5 as amended: a wall-clock time is written HH:MM:SS, eight characters,
\* every field (the hour included) zero-padded to two digits.
C5_Amended ==
    C5_Case =>
      /\ out.kind = "String" /\ Len(out.text) = 8
      /\ out.text[3] = ":" /\ out.text[6] = ":"
      /\ IsDigits(SubSeq(out.text, 1, 2)) /\ Num2(out.text, 1) = value.v.hour
      /\ IsDigits(SubSeq(out.text, 4, 5)) /\ Num2(out.text, 4) = value.v.minute
      /\ IsDigits(SubSeq(out.text, 7, 8)) /\ Num2(out.text, 7) = value.v.second

C5_Witness ==
    /\ C5_Case /\ value.v = [hour |-> 9, minute |-> 10, second |-> 11, nano |-> 0]
    /\ out = StringScalar(<<"0", "9", ":", "1", "0", ":", "1", "1">>)

(***************************************************************************)
(* C6: UTC normalization on output.                                        *)
(***************************************************************************)
C6_Case == scalar = "DateTimeUtc" /\ pc = "resolved"

HasFraction(t) == \E i \in 1..Len(t) : t[i] = "."

ZeroOffsetSuffix(t) ==
    \/ Len(t) >= 6 /\ SubSeq(t, Len(t) - 5, Len(t)) = <<"+", "0", "0", ":", "0", "0">>
    \/ Len(t) >= 1 /\ t[Len(t)] = "Z"

\* the output is an RFC 3339 string of offset zero naming the value's instant,
\* with a fraction exactly when the value's sub-second part is not zero
C6_Normalized ==
    /\ out.kind = "String"
    /\ ZeroOffsetSuffix(out.text)
    /\ parse_from_rfc3339(out.text) = Some([datetime |-> value.v.datetime, offset |-> 0])
    /\ HasFraction(out.text) <=> (value.v.datetime.time.nano % 1000000000 # 0)

\* C6: every UtcDateTime value, also one decoded from a string with a
\* non-zero offset, is serialized as an RFC 3339 string of offset zero for
\* the same instant, with a fraction only if the sub-second part is not
\* zero.
C6_UtcNormalized == C6_Case => C6_Normalized

(***************************************************************************)
(* C7: UtcDateTime decode against OffsetDateTime decode.                   *)
(***************************************************************************)
\* C7: UtcDateTime decodes a string exactly when OffsetDateTime decodes it,
\* and then to the OffsetDateTime value converted to UTC.
C7_UtcAgreesWithOffset ==
    (scalar = "DateTimeUtc" /\ pc = "decoded" /\ wire.kind = "String") =>
      LET o == DateTimeFixedOffset_from_input_value(wire)
      IN  /\ value.tag = "Some" <=> o.tag = "Some"
          /\ o.tag = "Some" => value = Some([datetime |-> o.v.datetime, offset |-> 0])

(***************************************************************************)
(* C8: NaiveDateTime decode never yields a silent default.                 *)
(***************************************************************************)
\* C8: decoding a float gives None or the instant whose Unix second is the
\* whole-second part of the float; NaN and the infinities give None.
C8_NoSilentDefault ==
    (scalar = "NaiveDateTime" /\ pc = "decoded" /\ wire.kind = "Float") =>
      /\ wire.num.cls # "fin" => value = None
      /\ value.tag = "Some" =>
           /\ wire.num.cls = "fin"
           /\ f64_eq(i64_as_f64(timestamp(value.v)), Trunc(wire.num))

(***************************************************************************)
(* C9: no cross-kind coercion in decode.                                   *)
(***************************************************************************)
\* C9: a string scalar decodes every non-string wire value to None, and
\* NaiveDateTime decodes every string wire value to None, a string of digits
\* included.
C9_NoCrossKind ==
    pc = "decoded" =>
      /\ (scalar \in StringScalars /\ wire.kind # "String") => value = None
      /\ (scalar = "NaiveDateTime" /\ wire.kind = "String") => value = None

C9_Witness ==
    /\ pc = "decoded" /\ scalar = "NaiveDateTime"
    /\ wire = StringScalar(<<"1", "0", "0", "0", "0", "0", "0", "0", "0", "0">>)
    /\ value = None

(***************************************************************************)
(* C10: round trip of CalendarDate and WallClockTime.                      *)
(***************************************************************************)
\* C10: what resolve writes for a CalendarDate of year 0..9999 or for a
\* WallClockTime decodes back to the value that was written.
C10_NaiveRoundTrip ==
    pc = "redecoded" =>
      /\ (scalar = "NaiveDate" /\ value.v.year \in 0..9999) => back = value
      /\ scalar = "NaiveTime" => back = value

C10_Witness ==
    /\ pc = "redecoded" /\ scalar = "NaiveDate" /\ wire = NullValue
    /\ value = Some([year |-> 2015, month |-> 3, day |-> 14])
    /\ out = StringScalar(<<"2", "0", "1", "5", "-", "0", "3", "-", "1", "4">>)
    /\ back = value

====
